---- MODULE Spec2Model ----
(***************************************************************************)
(* A model of components/net/src/server.rs of habitat's builder network   *)
(* layer: the Envelope, the Dispatcher worker loop (Dispatcher::start)    *)
(* and the Supervisor that owns the worker pool.                          *)
(*                                                                        *)
(* Two specifications share the module:                                   *)
(*   SpecWorker      one worker thread running Dispatcher::start          *)
(*   SpecSupervisor  Supervisor::start (init, then run) over its workers  *)
(***************************************************************************)
EXTENDS Integers, Sequences, FiniteSets

\* ------------------------------------------------------------------ constants

\* server.rs:36
PING_INTERVAL == 2000
\* server.rs:37
SERVER_TTL == 6000
\* server.rs:38
MAX_HOPS == 8

\* Bounds of the model (not program constants)
MaxInHops  == 9   \* most hop frames one inbound message carries
MaxReplies == 2   \* most reply()/reply_complete() calls in one dispatch
MaxWorkers == 3   \* largest worker_count passed to Supervisor::start
MaxSpawns  == 6   \* most worker threads the supervisor ever spawns
MaxClock   == 9000 \* the clock value (ms) at which the model stops the clock
MaxRouters == 2   \* most routers in a configuration
MaxRoutes  == 2   \* most route() calls on one connection

\* ------------------------------------------------------------------ frames

\* Identity frames prepended by ROUTER sockets on the way in.
HopIds == {"H1", "H2"}
\* The empty delimiter frame (hop.len() == 0).
Delim == ""
\* The request tag BrokerConn::route sends before the body, and the reply tag.
TagRQ == "RQ"
TagRP == "RP"
\* Body frames: one that is a serialized protocol::net::Msg, one that is not.
GoodBody == "body"
JunkBody == "junk"
Bodies == {GoodBody, JunkBody}
\* The payload a dispatcher hands to reply()/reply_complete(), serialized.
Payload == "rep"

\* protocol::net::Msg::new(): the empty header
EmptyMsg == "empty"

\* parse_from_bytes(&raw): only a serialized Msg decodes.  The two bytes of
\* the tag "RQ" (0x52 0x51) read as field 10, length-delimited, length 81 with
\* no bytes left, which no protobuf schema accepts.
parse_from_bytes(bytes) ==
    IF bytes = GoodBody THEN [ok |-> TRUE, msg |-> bytes]
                        ELSE [ok |-> FALSE, msg |-> EmptyMsg]

\* One frame written with sock.send(data, flags): more is flags = zmq::SNDMORE.
Frame(data, more) == [data |-> data, more |-> more]

VARIABLES
    \* ---- one worker thread (Dispatcher::start)
    pc,          \* where the worker is: "spawned", "hops", "body", "dispatch", "exited"
    envelope,    \* the worker's Envelope: [msg, hops, started]
    raw,         \* the zmq::Message the body frame is received into
    sock,        \* the worker's DEALER socket: "none", "connected", "closed"
    rz,          \* the readiness channel: [sent, dropped]
    out,         \* frames the worker wrote to sock for the envelope in hand
    ev,          \* what the worker's latest step did (its log line)
    wire,        \* the peer's position in the inbound message: [st, n]
    rxhops,      \* the non-empty frames read in the 'hops loop for this envelope
    calls,       \* the reply calls made in this dispatch, in order
    \* ---- the supervisor
    worker_count, \* the argument of Supervisor::start
    workers,      \* Supervisor.workers: the readiness receivers, by channel id
    live,         \* channel ids whose sender is still held by a running worker
    spawned,      \* number of worker threads spawned so far (the last channel id)
    signalled,    \* channel ids on which spawn_worker's rx.recv() got the readiness
    sup,          \* where the supervisor is: "init", "poll", "sleep", "start_panicked", "run_panicked"
    slot          \* worker_id of Supervisor::init / i of Supervisor::run (0-based)

VARIABLES
    \* ---- one ServerReg and the clock it reads
    clock,       \* ServerReg::clock_time(), in ms
    reg_made,    \* whether ServerReg::new has run
    reg,         \* the ServerReg: [endpoint, alive, ping_at, expires]
    created,     \* the clock value ServerReg::new read
    hb_sent,     \* number of Ping messages put on the heartbeat socket
    received,    \* whether a frame from the endpoint has come in on the heartbeat socket
    rev,         \* the latest ServerReg step: [op, now, after, res]
    pinged,      \* whether ping() has been called since the last clock tick
    driven       \* whether ping() has been called at every tick since construction

VARIABLES
    \* ---- one call of Service::connect
    svc_pc,      \* where connect is: "start", "register", "handshake", "connect", "ok", "err", "panicked"
    route_addrs, \* cfg.route_addrs(): the configured routers, in order
    hb_addrs,    \* the heartbeat addresses built from the configuration
    req_addrs,   \* addrs: the routers' main addresses built from the configuration
    hb_conns,    \* addresses the heartbeat socket is connected to, in order
    svc_ready,   \* ready: handshakes completed
    hs_step,     \* steps of the handshake in hand already done (0..4)
    hb_log,      \* what was received and sent on the heartbeat socket, in order
    sock_conns,  \* addresses the request socket is connected to, in order
    svc_failed   \* the phase whose try! returned the error: "none", "register", ...

VARIABLES
    \* ---- one call of Broker::run and the thread it spawns
    caller,      \* the caller of run: "start", "waiting", "returned", "panicked"
    brk,         \* the router-broker thread: "none", "new", "bind", "connect", "proxy", "dead"
    brk_addrs,   \* addrs: the routers' addresses handed to the thread
    fe_bound,    \* whether client_sock.bind(ROUTE_INPROC_ADDR) was done
    be_conns,    \* addresses router_sock was connected to, in order
    tx           \* the rendezvous channel: [sent, dropped]

VARIABLES
    \* ---- the connections that route messages
    hashers,     \* each connection's hasher field: the FnvHasher's 64-bit state
    routed,      \* number of route() calls made on each connection
    hashes,      \* for each route key, the route_hash values route() has computed
    rlast        \* the latest route() call: [conn, key, route_hash, frames, res]

wvars == <<pc, envelope, raw, sock, rz, out, ev, wire, rxhops, calls>>
svars == <<worker_count, workers, live, spawned, signalled, sup, slot>>
rvars == <<clock, reg_made, reg, created, hb_sent, received, rev, pinged, driven>>
cvars == <<svc_pc, route_addrs, hb_addrs, req_addrs, hb_conns, svc_ready, hs_step,
           hb_log, sock_conns, svc_failed>>
bvars == <<caller, brk, brk_addrs, fe_bound, be_conns, tx>>
hvars == <<hashers, routed, hashes, rlast>>
vars  == <<wvars, svars, rvars, cvars, bvars, hvars>>

\* Everything but one component's variables
wrest == <<svars, rvars, cvars, bvars, hvars>>
srest == <<wvars, rvars, cvars, bvars, hvars>>
rrest == <<wvars, svars, cvars, bvars, hvars>>
crest == <<wvars, svars, rvars, bvars, hvars>>
brest == <<wvars, svars, rvars, cvars, hvars>>
hrest == <<wvars, svars, rvars, cvars, bvars>>

\* ------------------------------------------------------------------ Envelope

\* impl Default for Envelope
Envelope_default == [msg |-> EmptyMsg, hops |-> <<>>, started |-> FALSE]

\* max_hops with the comparison off by one: a ninth hop is let in
max_hops_off_by_one(e) == Len(e.hops) > MAX_HOPS

\* Envelope::max_hops
max_hops(e) == Len(e.hops) >= MAX_HOPS

\* add_hop that lets a hop beyond MAX_HOPS fall away and reports success
add_hop_drops_hop(e, hop) ==
    IF max_hops(e)
    THEN [ok |-> TRUE, env |-> e]
    ELSE [ok |-> TRUE, env |-> [e EXCEPT !.hops = Append(@, hop)]]

\* Envelope::add_hop: Err(MaxHops) leaves the envelope as it was
add_hop(e, hop) ==
    IF max_hops(e)
    THEN [ok |-> FALSE, env |-> e]
    ELSE [ok |-> TRUE, env |-> [e EXCEPT !.hops = Append(@, hop)]]

\* reset without self.hops.clear()
reset_keeps_hops(e) == [e EXCEPT !.started = FALSE, !.msg = EmptyMsg]

\* Envelope::reset
reset(e) == [e EXCEPT !.started = FALSE, !.hops = <<>>, !.msg = EmptyMsg]

\* send_header walking the hops from the last to the first
send_header_reversed(e) ==
    IF ~e.started
    THEN [i \in 1..Len(e.hops) |-> Frame(e.hops[Len(e.hops) + 1 - i], TRUE)]
         \o <<Frame(Delim, TRUE), Frame(TagRP, TRUE)>>
    ELSE <<>>

\* send_header without the test of self.started
send_header_unguarded(e) ==
    [i \in 1..Len(e.hops) |-> Frame(e.hops[i], TRUE)]
    \o <<Frame(Delim, TRUE), Frame(TagRP, TRUE)>>

\* The frames Envelope::send_header writes: nothing once started
send_header(e) ==
    IF ~e.started
    THEN [i \in 1..Len(e.hops) |-> Frame(e.hops[i], TRUE)]
         \o <<Frame(Delim, TRUE), Frame(TagRP, TRUE)>>
    ELSE <<>>

\* The payload frame of Envelope::reply (SNDMORE) and of
\* Envelope::reply_complete (flags 0)
reply_frame(kind) == Frame(Payload, kind = "reply")

\* ------------------------------------------------------------------ the wire

\* The frames the peer may deliver next.  An inbound message is
\*   [hop_1]..[hop_k][""][body]  or  [hop_1]..[hop_k][""]["RQ"][body]
\* (the second is what BrokerConn::route puts behind the delimiter),
\* k <= MaxInHops.
NextFrames(w) ==
    CASE w.st = "hops"  -> {Delim} \cup (IF w.n < MaxInHops THEN HopIds ELSE {})
      [] w.st = "delim" -> {TagRQ} \cup Bodies
      [] w.st = "tag"   -> Bodies

\* The peer's position after delivering frame f
Advance(w, f) ==
    CASE w.st = "hops"  -> IF f = Delim THEN [w EXCEPT !.st = "delim"]
                                        ELSE [w EXCEPT !.n = @ + 1]
      [] w.st = "delim" -> IF f = TagRQ THEN [w EXCEPT !.st = "tag"]
                                        ELSE [st |-> "hops", n |-> 0]
      [] w.st = "tag"   -> [st |-> "hops", n |-> 0]

\* ------------------------------------------------------------------ the worker

WorkerInit ==
    /\ pc = "spawned"
    /\ envelope = Envelope_default
    /\ raw = ""
    /\ sock = "none"
    /\ rz = [sent |-> FALSE, dropped |-> FALSE]
    /\ out = <<>>
    /\ ev = "none"
    /\ wire = [st |-> "hops", n |-> 0]
    /\ rxhops = <<>>
    /\ calls = <<>>

\* The worker thread ends: start() returns (or unwinds), which drops the
\* socket and the readiness sender rz.
Exit(reason) ==
    /\ pc' = "exited"
    /\ ev' = reason
    /\ sock' = IF sock = "none" THEN "none" ELSE "closed"
    /\ rz' = [rz EXCEPT !.dropped = TRUE]

\* The envelope in hand is finished: envelope.reset() at the end of the
\* 'recv iteration; the records kept about it start afresh.
NextEnvelope ==
    /\ envelope' = reset(envelope)
    /\ pc' = "hops"
    /\ out' = <<>>
    /\ rxhops' = <<>>
    /\ calls' = <<>>

\* The thread body of spawn_worker up to the 'recv loop: worker.init(), then
\* in start() the socket (unwrap), sock.connect(message_queue()) (try!) and
\* rz.send(()).  outcome says which of them fails, or "ready".
Start(outcome) ==
    /\ pc = "spawned"
    /\ CASE outcome = "init_failed" ->
              Exit("init_failed")
         [] outcome = "socket_failed" ->
              Exit("panicked")
         [] outcome = "connect_failed" ->
              /\ pc' = "exited"
              /\ ev' = "connect_failed"
              /\ sock' = "closed"
              /\ rz' = [rz EXCEPT !.dropped = TRUE]
         [] outcome = "ready" ->
              /\ pc' = "hops"
              /\ ev' = "ready"
              /\ sock' = "connected"
              /\ rz' = [rz EXCEPT !.sent = TRUE]
    /\ UNCHANGED <<envelope, raw, out, wire, rxhops, calls>>
    /\ UNCHANGED wrest

\* One iteration of the 'hops loop: sock.recv_msg(0), then the delimiter test
\* and add_hop.  f = "error" is recv_msg failing (try!).
RecvHop(f) ==
    /\ pc = "hops"
    /\ IF f = "error"
       THEN /\ Exit("recv_error")
            /\ UNCHANGED <<envelope, raw, out, wire, rxhops, calls>>
       ELSE /\ f \in NextFrames(wire)
            /\ wire' = Advance(wire, f)
            /\ IF f = Delim
               THEN /\ pc' = "body"
                    /\ ev' = "delimiter"
                    /\ UNCHANGED <<envelope, raw, sock, rz, out, rxhops, calls>>
               ELSE /\ rxhops' = Append(rxhops, f)
                    /\ IF add_hop(envelope, f).ok
                       THEN /\ envelope' = add_hop(envelope, f).env
                            /\ ev' = "hop"
                            /\ UNCHANGED <<pc, raw, sock, rz, out, calls>>
                       ELSE \* warn!("drop message, too many hops"); break 'recv
                            /\ envelope' = reset(envelope)
                            /\ Exit("max_hops")
                            /\ UNCHANGED <<raw, out, calls>>
    /\ UNCHANGED wrest

\* After the delimiter: sock.recv(&mut raw, 0), parse_from_bytes(&raw), and on
\* a parse error the warn! and envelope.reset() that end the iteration.
RecvBody(f) ==
    /\ pc = "body"
    /\ IF f = "error"
       THEN /\ Exit("recv_error")
            /\ UNCHANGED <<envelope, raw, out, wire, rxhops, calls>>
       ELSE /\ f \in NextFrames(wire)
            /\ wire' = Advance(wire, f)
            /\ raw' = f
            /\ IF parse_from_bytes(f).ok
               THEN /\ envelope' = [envelope EXCEPT !.msg = parse_from_bytes(f).msg]
                    /\ pc' = "dispatch"
                    /\ ev' = "on_message"
                    /\ UNCHANGED <<sock, rz, out, rxhops, calls>>
               ELSE /\ ev' = "parse_error"
                    /\ NextEnvelope
                    /\ UNCHANGED <<sock, rz>>
    /\ UNCHANGED wrest

\* Inside dispatch: one call of envelope.reply (kind "reply") or
\* envelope.reply_complete (kind "reply_complete").  k is the number of header
\* frames written before a send fails (send_header unwraps: a panic); res is
\* how the payload fares: "sent", "ser_fail" (write_to_bytes fails) or
\* "send_fail" (sock.send fails).
Reply(kind, k, res) ==
    /\ pc = "dispatch"
    /\ Len(calls) < MaxReplies
    /\ k \in 0..Len(send_header(envelope))
    /\ IF k < Len(send_header(envelope))
       THEN /\ res = "sent"
            /\ out' = out \o SubSeq(send_header(envelope), 1, k)
            /\ calls' = Append(calls, [kind |-> kind, sent |-> FALSE])
            /\ Exit("panicked")
            /\ UNCHANGED <<envelope, raw, wire, rxhops>>
       ELSE /\ envelope' = [envelope EXCEPT !.started = TRUE]
            /\ IF res = "sent"
               THEN /\ out' = out \o send_header(envelope) \o <<reply_frame(kind)>>
                    /\ calls' = Append(calls, [kind |-> kind, sent |-> TRUE])
                    /\ ev' = "replied"
                    /\ UNCHANGED <<pc, raw, sock, rz, wire, rxhops>>
               ELSE /\ out' = out \o send_header(envelope)
                    /\ calls' = Append(calls, [kind |-> kind, sent |-> FALSE])
                    /\ IF kind = "reply" /\ res = "ser_fail"
                       THEN \* rep.write_to_bytes().unwrap()
                            /\ Exit("panicked")
                            /\ UNCHANGED <<raw, wire, rxhops>>
                       ELSE \* try!: the call returns Err to dispatch
                            /\ ev' = "reply_error"
                            /\ UNCHANGED <<pc, raw, sock, rz, wire, rxhops>>
    /\ UNCHANGED wrest

\* dispatch returns: Ok goes on to envelope.reset() and the next iteration,
\* Err leaves start() through try!.
DispatchReturn(ok) ==
    /\ pc = "dispatch"
    /\ IF ok
       THEN /\ ev' = "dispatched"
            /\ NextEnvelope
            /\ UNCHANGED <<raw, sock, rz, wire>>
       ELSE /\ Exit("dispatch_error")
            /\ UNCHANGED <<envelope, raw, out, wire, rxhops, calls>>
    /\ UNCHANGED wrest

InFrames == {"error", Delim, TagRQ} \cup HopIds \cup Bodies

NextWorker ==
    \/ \E outcome \in {"init_failed", "socket_failed", "connect_failed", "ready"} :
          Start(outcome)
    \/ \E f \in InFrames : RecvHop(f)
    \/ \E f \in InFrames : RecvBody(f)
    \/ \E kind \in {"reply", "reply_complete"}, k \in 0..(MAX_HOPS + 2),
          res \in {"sent", "ser_fail", "send_fail"} : Reply(kind, k, res)
    \/ \E ok \in BOOLEAN : DispatchReturn(ok)

\* ------------------------------------------------------------------ the supervisor

SupervisorInit ==
    /\ worker_count \in 1..MaxWorkers
    /\ workers = <<>>
    /\ live = {}
    /\ spawned = 0
    /\ signalled = {}
    /\ sup = "init"
    /\ slot = 0

\* Vec::push
Vec_push(v, x) == Append(v, x)

\* Vec::remove(index), index 0-based: panics unless index < len, else shifts
\* the later elements down by one
Vec_remove(v, index) ==
    IF index < Len(v)
    THEN [panic |-> FALSE, vec |-> SubSeq(v, 1, index) \o SubSeq(v, index + 2, Len(v))]
    ELSE [panic |-> TRUE, vec |-> v]

\* spawn_worker whose failure branch only logs "failed to start"
spawn_worker_logs_failure(ws, worker_id, rx, ready) ==
    IF ready
    THEN [panic |-> FALSE, vec |-> Vec_push(ws, rx)]
    ELSE [panic |-> FALSE, vec |-> ws]

\* Supervisor::spawn_worker(worker_id): rx is the receiver of the new channel,
\* ready is whether rx.recv() returned Ok (the worker sent its readiness) or
\* Err (the worker thread ended first and dropped the sender).
spawn_worker(ws, worker_id, rx, ready) ==
    IF ready
    THEN [panic |-> FALSE, vec |-> Vec_push(ws, rx)]
    ELSE Vec_remove(ws, worker_id)

\* The index after slot in `for .. in 0..worker_count`, and what follows the
\* last one: `after` is "poll" for init (start goes on to run) and "sleep"
\* for a pass of run.
NextSlot(after) ==
    IF slot + 1 < worker_count
    THEN /\ slot' = slot + 1
         /\ UNCHANGED sup
    ELSE /\ slot' = 0
         /\ sup' = after

\* One iteration of the loop of Supervisor::init: spawn_worker(worker_id).
\* A panic here unwinds the thread that called Supervisor::start.
InitSpawn(ready) ==
    /\ sup = "init"
    /\ spawned < MaxSpawns
    /\ spawned' = spawned + 1
    /\ live' = IF ready THEN live \cup {spawned + 1} ELSE live
    /\ signalled' = IF ready THEN signalled \cup {spawned + 1} ELSE signalled
    /\ IF spawn_worker(workers, slot, spawned + 1, ready).panic
       THEN /\ sup' = "start_panicked"
            /\ UNCHANGED <<workers, slot>>
       ELSE /\ workers' = spawn_worker(workers, slot, spawned + 1, ready).vec
            /\ NextSlot("poll")
    /\ UNCHANGED <<worker_count, srest>>

\* One iteration of the for loop of Supervisor::run: self.workers[i].try_recv()
\* and the match on it.  Indexing past the end panics the supervisor thread.
\* try_recv never yields Ok here: the one message a worker sends was taken by
\* rx.recv() in spawn_worker.
Poll(ready) ==
    /\ sup = "poll"
    /\ IF slot >= Len(workers)
       THEN /\ sup' = "run_panicked"
            /\ UNCHANGED <<workers, live, spawned, signalled, slot>>
       ELSE IF workers[slot + 1] \in live
       THEN \* Err(TryRecvError::Empty) => continue
            /\ NextSlot("sleep")
            /\ UNCHANGED <<workers, live, spawned, signalled>>
       ELSE \* Err(TryRecvError::Disconnected) => self.spawn_worker(i).unwrap()
            /\ spawned < MaxSpawns
            /\ spawned' = spawned + 1
            /\ live' = IF ready THEN live \cup {spawned + 1} ELSE live
            /\ signalled' = IF ready THEN signalled \cup {spawned + 1} ELSE signalled
            /\ IF spawn_worker(workers, slot, spawned + 1, ready).panic
               THEN /\ sup' = "run_panicked"
                    /\ UNCHANGED <<workers, slot>>
               ELSE /\ workers' = spawn_worker(workers, slot, spawned + 1, ready).vec
                    /\ NextSlot("sleep")
    /\ UNCHANGED <<worker_count, srest>>

\* self.workers[i].try_recv() on the readiness channel ch = [sent, dropped] of
\* a worker that signalled: its one message was taken by rx.recv() in
\* spawn_worker, so the channel is empty, and disconnected once the sender is
\* dropped.
try_recv(ch) == IF ch.dropped THEN "Disconnected" ELSE "Empty"

\* thread::sleep(Duration::from_millis(500)), then the next pass
Sleep ==
    /\ sup = "sleep"
    /\ sup' = "poll"
    /\ UNCHANGED <<worker_count, workers, live, spawned, signalled, slot, srest>>

\* A running worker's thread ends (Dispatcher::start returns or unwinds), which
\* drops the sender of its readiness channel.
WorkerDies(w) ==
    /\ w \in live
    /\ live' = live \ {w}
    /\ UNCHANGED <<worker_count, workers, spawned, signalled, sup, slot, srest>>

NextSupervisor ==
    \/ \E ready \in BOOLEAN : InitSpawn(ready)
    \/ \E ready \in BOOLEAN : Poll(ready)
    \/ Sleep
    \/ \E w \in 1..MaxSpawns : WorkerDies(w)

\* ------------------------------------------------------------------ ServerReg

\* The clock advances in ticks of this many ms.
Ticks == {500}

\* Router endpoints a ServerReg may be made for.
Endpoints == {"router-a", "router-b"}

RegInit ==
    /\ clock = 0
    /\ reg_made = FALSE
    /\ reg = [endpoint |-> "", alive |-> FALSE, ping_at |-> 0, expires |-> 0]
    /\ created = 0
    /\ hb_sent = 0
    /\ received = FALSE
    /\ rev = [op |-> "none", now |-> 0, after |-> 0, res |-> "none"]
    /\ pinged = FALSE
    /\ driven = TRUE

\* ServerReg::new that starts the entry as alive
ServerReg_new_alive(endpoint, now_ms) ==
    [endpoint |-> endpoint,
     alive    |-> TRUE,
     ping_at  |-> now_ms + PING_INTERVAL,
     expires  |-> now_ms + SERVER_TTL]

\* ServerReg::new(endpoint), with now_ms the value of clock_time()
ServerReg_new(endpoint, now_ms) ==
    [endpoint |-> endpoint,
     alive    |-> FALSE,
     ping_at  |-> now_ms + PING_INTERVAL,
     expires  |-> now_ms + SERVER_TTL]

\* ping that advances ping_at by SERVER_TTL instead of PING_INTERVAL
ServerReg_ping_ttl(r, now_ms, after_ms, res) ==
    IF now_ms >= r.ping_at
    THEN IF res = "sent"
         THEN [reg |-> [r EXCEPT !.ping_at = after_ms + SERVER_TTL],
               sent |-> 1, ok |-> TRUE]
         ELSE [reg |-> r, sent |-> 0, ok |-> FALSE]
    ELSE [reg |-> r, sent |-> 0, ok |-> TRUE]

\* ping that sets ping_at to the clock value without adding PING_INTERVAL
ServerReg_ping_no_interval(r, now_ms, after_ms, res) ==
    IF now_ms >= r.ping_at
    THEN IF res = "sent"
         THEN [reg |-> [r EXCEPT !.ping_at = after_ms],
               sent |-> 1, ok |-> TRUE]
         ELSE [reg |-> r, sent |-> 0, ok |-> FALSE]
    ELSE [reg |-> r, sent |-> 0, ok |-> TRUE]

\* ping that also pushes expires out when it sends
ServerReg_ping_refreshes(r, now_ms, after_ms, res) ==
    IF now_ms >= r.ping_at
    THEN IF res = "sent"
         THEN [reg |-> [r EXCEPT !.ping_at = after_ms + PING_INTERVAL,
                                 !.expires = after_ms + SERVER_TTL],
               sent |-> 1, ok |-> TRUE]
         ELSE [reg |-> r, sent |-> 0, ok |-> FALSE]
    ELSE [reg |-> r, sent |-> 0, ok |-> TRUE]

\* ping that is due only once the clock is past ping_at
ServerReg_ping_strict(r, now_ms, after_ms, res) ==
    IF now_ms > r.ping_at
    THEN IF res = "sent"
         THEN [reg |-> [r EXCEPT !.ping_at = after_ms + PING_INTERVAL],
               sent |-> 1, ok |-> TRUE]
         ELSE [reg |-> r, sent |-> 0, ok |-> FALSE]
    ELSE [reg |-> r, sent |-> 0, ok |-> TRUE]

\* ServerReg::ping.  now_ms is clock_time() on entry, after_ms is clock_time()
\* once the send has returned, res is how write_to_bytes and socket.send fare
\* ("sent", "ser_fail", "send_fail").  Gives the ServerReg afterwards, the
\* number of Pings sent and whether the call returns Ok.
ServerReg_ping(r, now_ms, after_ms, res) ==
    IF now_ms >= r.ping_at
    THEN IF res = "sent"
         THEN [reg |-> [r EXCEPT !.ping_at = after_ms + PING_INTERVAL],
               sent |-> 1, ok |-> TRUE]
         ELSE [reg |-> r, sent |-> 0, ok |-> FALSE]
    ELSE [reg |-> r, sent |-> 0, ok |-> TRUE]

\* A ServerReg is constructed for an endpoint.
RegNew(endpoint) ==
    /\ ~reg_made
    /\ reg_made' = TRUE
    /\ reg' = ServerReg_new(endpoint, clock)
    /\ created' = clock
    /\ rev' = [op |-> "new", now |-> clock, after |-> clock, res |-> "none"]
    /\ UNCHANGED <<clock, hb_sent, received, pinged, driven>>
    /\ UNCHANGED rrest

\* Time passes while nothing runs.
Tick(d) ==
    /\ clock + d <= MaxClock
    /\ clock' = clock + d
    /\ driven' = (driven /\ (reg_made => pinged))
    /\ pinged' = FALSE
    /\ rev' = [op |-> "tick", now |-> clock, after |-> clock + d, res |-> "none"]
    /\ UNCHANGED <<reg_made, reg, created, hb_sent, received>>
    /\ UNCHANGED rrest

\* One call of reg.ping(socket).  d is the time the send takes (the clock is
\* read again after it); a call that is not due returns at once.
Ping(d, res) ==
    /\ reg_made
    /\ clock + d <= MaxClock
    /\ IF clock >= reg.ping_at THEN res # "not_due" ELSE (res = "not_due" /\ d = 0)
    /\ res = "ser_fail" => d = 0
    /\ clock' = clock + d
    /\ reg' = ServerReg_ping(reg, clock, clock + d, res).reg
    /\ hb_sent' = hb_sent + ServerReg_ping(reg, clock, clock + d, res).sent
    /\ rev' = [op |-> "ping", now |-> clock, after |-> clock + d, res |-> res]
    /\ pinged' = TRUE
    /\ UNCHANGED <<reg_made, created, received, driven>>
    /\ UNCHANGED rrest

\* What the owner of the registry does with a frame that comes in on the
\* heartbeat socket from the entry's endpoint at time now_ms.
heartbeat_recv(r, now_ms) ==
    [r EXCEPT !.alive = TRUE, !.expires = now_ms + SERVER_TTL]

\* A frame from the endpoint comes in on the heartbeat socket.
Receive ==
    /\ reg_made
    /\ reg' = heartbeat_recv(reg, clock)
    /\ received' = TRUE
    /\ rev' = [op |-> "recv", now |-> clock, after |-> clock, res |-> "none"]
    /\ UNCHANGED <<clock, reg_made, created, hb_sent, pinged, driven>>
    /\ UNCHANGED rrest

NextServerReg ==
    \/ \E endpoint \in Endpoints : RegNew(endpoint)
    \/ \E d \in Ticks : Tick(d)
    \/ \E d \in {0} \cup Ticks, res \in {"sent", "ser_fail", "send_fail", "not_due"} :
          Ping(d, res)

\* ------------------------------------------------------------------ Service::connect

\* The routers a configuration may name
Routers == {"10.0.0.1", "10.0.0.2", "10.0.0.3"}

\* The configurations: up to MaxRouters distinct routers, in some order
RouteAddrs ==
    UNION { { c \in [1..n -> Routers] : \A i, j \in 1..n : c[i] = c[j] => i = j }
            : n \in 0..MaxRouters }

\* format!("tcp://{}:{}", f.ip(), cfg.heartbeat_port())
hb_addr(f) == <<"tcp", f, "heartbeat_port">>

\* f.to_addr_string()
to_addr_string(f) == <<"tcp", f, "port">>

\* One handshake, in the order of the loop body
HandshakeSteps == <<"recv_rt", "recv_hb", "send_R", "send_reg", "recv_ack">>

ServiceInit ==
    /\ svc_pc = "start"
    /\ route_addrs = <<>>
    /\ hb_addrs = <<>>
    /\ req_addrs = <<>>
    /\ hb_conns = <<>>
    /\ svc_ready = 0
    /\ hs_step = 0
    /\ hb_log = <<>>
    /\ sock_conns = <<>>
    /\ svc_failed = "none"

\* a loop test that goes round once more than there are routers
handshake_pending_extra(n_ready, n) == n_ready <= n

\* a loop test that stops one handshake short
handshake_pending_short(n_ready, n) == n_ready + 1 < n

\* while ready < hb_addrs.len()
handshake_pending(n_ready, n) == n_ready < n

\* where connect goes on when the loop test is made
AfterLoopTest(n_ready, n) ==
    IF handshake_pending(n_ready, n) THEN "handshake" ELSE "connect"

\* try! returns the error from connect
ServiceErr(phase) ==
    /\ svc_pc' = "err"
    /\ svc_failed' = phase

\* The block that reads the configuration: cfg is what the lock holds;
\* read().unwrap() panics on a poisoned lock.
ReadConfig(cfg, ok) ==
    /\ svc_pc = "start"
    /\ IF ok
       THEN /\ route_addrs' = cfg
            /\ hb_addrs' = [i \in 1..Len(cfg) |-> hb_addr(cfg[i])]
            /\ req_addrs' = [i \in 1..Len(cfg) |-> to_addr_string(cfg[i])]
            /\ svc_pc' = "register"
       ELSE /\ svc_pc' = "panicked"
            /\ UNCHANGED <<route_addrs, hb_addrs, req_addrs>>
    /\ UNCHANGED <<hb_conns, svc_ready, hs_step, hb_log, sock_conns, svc_failed>>
    /\ UNCHANGED crest

\* for addr in &hb_addrs: try!(self.conn_mut().register(&addr))
Register(ok) ==
    /\ svc_pc = "register"
    /\ Len(hb_conns) < Len(hb_addrs)
    /\ IF ok
       THEN /\ hb_conns' = Append(hb_conns, hb_addrs[Len(hb_conns) + 1])
            /\ UNCHANGED <<svc_pc, svc_failed>>
       ELSE /\ ServiceErr("register")
            /\ UNCHANGED hb_conns
    /\ UNCHANGED <<route_addrs, hb_addrs, req_addrs, svc_ready, hs_step, hb_log, sock_conns>>
    /\ UNCHANGED crest

\* let mut ready = 0; the two try!(zmq::Message::new()); the first loop test
NewMessages(ok) ==
    /\ svc_pc = "register"
    /\ Len(hb_conns) = Len(hb_addrs)
    /\ IF ok
       THEN /\ svc_pc' = AfterLoopTest(0, Len(hb_addrs))
            /\ UNCHANGED svc_failed
       ELSE ServiceErr("messages")
    /\ svc_ready' = 0
    /\ UNCHANGED <<route_addrs, hb_addrs, req_addrs, hb_conns, hs_step, hb_log, sock_conns>>
    /\ UNCHANGED crest

\* One call on the heartbeat socket in the loop body.  res is "ok", "err"
\* (try!) or "panic" (reg.write_to_bytes().unwrap(), with "R" already sent).
\* After the fifth, ready += 1 and the loop test.
HandshakeStep(res) ==
    /\ svc_pc = "handshake"
    /\ res = "panic" => HandshakeSteps[hs_step + 1] = "send_reg"
    /\ CASE res = "ok" ->
              /\ hb_log' = Append(hb_log, HandshakeSteps[hs_step + 1])
              /\ IF hs_step + 1 = Len(HandshakeSteps)
                 THEN /\ hs_step' = 0
                      /\ svc_ready' = svc_ready + 1
                      /\ svc_pc' = AfterLoopTest(svc_ready + 1, Len(hb_addrs))
                 ELSE /\ hs_step' = hs_step + 1
                      /\ UNCHANGED <<svc_ready, svc_pc>>
              /\ UNCHANGED svc_failed
         [] res = "err" ->
              /\ ServiceErr("handshake")
              /\ UNCHANGED <<hb_log, hs_step, svc_ready>>
         [] res = "panic" ->
              /\ svc_pc' = "panicked"
              /\ UNCHANGED <<hb_log, hs_step, svc_ready, svc_failed>>
    /\ UNCHANGED <<route_addrs, hb_addrs, req_addrs, hb_conns, sock_conns>>
    /\ UNCHANGED crest

\* for addr in addrs: try!(self.conn_mut().connect(&addr))
ConnectRequest(ok) ==
    /\ svc_pc = "connect"
    /\ Len(sock_conns) < Len(req_addrs)
    /\ IF ok
       THEN /\ sock_conns' = Append(sock_conns, req_addrs[Len(sock_conns) + 1])
            /\ UNCHANGED <<svc_pc, svc_failed>>
       ELSE /\ ServiceErr("connect")
            /\ UNCHANGED sock_conns
    /\ UNCHANGED <<route_addrs, hb_addrs, req_addrs, hb_conns, svc_ready, hs_step, hb_log>>
    /\ UNCHANGED crest

\* println!("Connected"); Ok(())
Connected ==
    /\ svc_pc = "connect"
    /\ Len(sock_conns) = Len(req_addrs)
    /\ svc_pc' = "ok"
    /\ UNCHANGED <<route_addrs, hb_addrs, req_addrs, hb_conns, svc_ready, hs_step, hb_log,
                   sock_conns, svc_failed>>
    /\ UNCHANGED crest

NextService ==
    \/ \E cfg \in RouteAddrs, ok \in BOOLEAN : ReadConfig(cfg, ok)
    \/ \E ok \in BOOLEAN : Register(ok)
    \/ \E ok \in BOOLEAN : NewMessages(ok)
    \/ \E res \in {"ok", "err", "panic"} : HandshakeStep(res)
    \/ \E ok \in BOOLEAN : ConnectRequest(ok)
    \/ Connected

\* ------------------------------------------------------------------ Broker::run

BrokerInit ==
    /\ caller = "start"
    /\ brk = "none"
    /\ brk_addrs = <<>>
    /\ fe_bound = FALSE
    /\ be_conns = <<>>
    /\ tx = [sent |-> FALSE, dropped |-> FALSE]

\* rx.recv() on the sync_channel: the buffered message if there is one, an
\* error once the sender is gone, and otherwise the caller stays blocked.
rx_recv(ch) ==
    IF ch.sent THEN "Ok" ELSE IF ch.dropped THEN "Err" ELSE "block"

\* a match that hands out the handle whatever recv returned
run_result_lenient(r) == "returned"

\* match rx.recv() { Ok(()) => handle, Err(e) => panic!(..) }
run_result(r) == IF r = "Ok" THEN "returned" ELSE "panicked"

\* The router-broker thread ends, by a panic (unwrap) or by returning: its
\* sockets and the sender tx are dropped.
BrokerDies ==
    /\ brk' = "dead"
    /\ tx' = [tx EXCEPT !.dropped = TRUE]

\* Broker::run up to rx.recv(): the channel, addrs, and the spawn of the
\* thread (unwrap: the caller panics if the thread cannot be spawned).
Run(routers, ok) ==
    /\ caller = "start"
    /\ IF ok
       THEN /\ brk_addrs' = [i \in 1..Len(routers) |-> to_addr_string(routers[i])]
            /\ brk' = "new"
            /\ caller' = "waiting"
       ELSE /\ caller' = "panicked"
            /\ UNCHANGED <<brk, brk_addrs>>
    /\ UNCHANGED <<fe_bound, be_conns, tx>>
    /\ UNCHANGED brest

\* In the thread: Self::new(net_ident, &ctx).unwrap()
BrokerNew(ok) ==
    /\ brk = "new"
    /\ IF ok THEN brk' = "bind" /\ UNCHANGED tx ELSE BrokerDies
    /\ UNCHANGED <<caller, brk_addrs, fe_bound, be_conns>>
    /\ UNCHANGED brest

\* In start(): try!(self.client_sock.bind(ROUTE_INPROC_ADDR))
BrokerBind(ok) ==
    /\ brk = "bind"
    /\ IF ok
       THEN /\ brk' = "connect"
            /\ fe_bound' = TRUE
            /\ UNCHANGED tx
       ELSE /\ BrokerDies
            /\ UNCHANGED fe_bound
    /\ UNCHANGED <<caller, brk_addrs, be_conns>>
    /\ UNCHANGED brest

\* for addr in routers: try!(self.router_sock.connect(&addr))
BrokerConnect(ok) ==
    /\ brk = "connect"
    /\ Len(be_conns) < Len(brk_addrs)
    /\ IF ok
       THEN /\ be_conns' = Append(be_conns, brk_addrs[Len(be_conns) + 1])
            /\ UNCHANGED <<brk, tx>>
       ELSE /\ BrokerDies
            /\ UNCHANGED be_conns
    /\ UNCHANGED <<caller, brk_addrs, fe_bound>>
    /\ UNCHANGED brest

\* rz.send(()).unwrap() after the last connect; the thread goes into zmq::proxy
BrokerSignal ==
    /\ brk = "connect"
    /\ Len(be_conns) = Len(brk_addrs)
    /\ tx' = [tx EXCEPT !.sent = TRUE]
    /\ brk' = "proxy"
    /\ UNCHANGED <<caller, brk_addrs, fe_bound, be_conns>>
    /\ UNCHANGED brest

\* zmq::proxy returns: start() returns and the thread ends
ProxyEnds ==
    /\ brk = "proxy"
    /\ BrokerDies
    /\ UNCHANGED <<caller, brk_addrs, fe_bound, be_conns>>
    /\ UNCHANGED brest

\* The caller's rx.recv() returns and run ends in the match
CallerRecv ==
    /\ caller = "waiting"
    /\ rx_recv(tx) # "block"
    /\ caller' = run_result(rx_recv(tx))
    /\ UNCHANGED <<brk, brk_addrs, fe_bound, be_conns, tx>>
    /\ UNCHANGED brest

NextBroker ==
    \/ \E routers \in RouteAddrs, ok \in BOOLEAN : Run(routers, ok)
    \/ \E ok \in BOOLEAN : BrokerNew(ok)
    \/ \E ok \in BOOLEAN : BrokerBind(ok)
    \/ \E ok \in BOOLEAN : BrokerConnect(ok)
    \/ BrokerSignal
    \/ ProxyEnds
    \/ CallerRecv

\* ------------------------------------------------------------------ route()

\* A u64 is four 16-bit limbs, least significant first.
\* The FNV-1a 64-bit offset basis 0xcbf29ce484222325: FnvHasher::default()
FnvDefault == <<8997, 33826, 40164, 52210>>

\* The FNV 64-bit prime 0x100000001b3
FnvPrime == <<435, 0, 256, 0>>

\* a xor b for two bytes
RECURSIVE xor_bits(_, _, _)
xor_bits(a, b, n) ==
    IF n = 0 THEN 0
    ELSE ((a + b) % 2) + 2 * xor_bits(a \div 2, b \div 2, n - 1)

\* state ^ (byte as u64)
fnv_xor(h, byte) ==
    <<(h[1] \div 256) * 256 + xor_bits(h[1] % 256, byte, 8), h[2], h[3], h[4]>>

\* state.wrapping_mul(prime)
fnv_mul(h) ==
    LET sum(k) == IF k = 1 THEN h[1] * FnvPrime[1]
                  ELSE IF k = 2 THEN h[1] * FnvPrime[2] + h[2] * FnvPrime[1]
                  ELSE IF k = 3 THEN h[1] * FnvPrime[3] + h[2] * FnvPrime[2]
                                     + h[3] * FnvPrime[1]
                  ELSE h[1] * FnvPrime[4] + h[2] * FnvPrime[3]
                       + h[3] * FnvPrime[2] + h[4] * FnvPrime[1]
        s1 == sum(1)
        s2 == sum(2) + (s1 \div 65536)
        s3 == sum(3) + (s2 \div 65536)
        s4 == sum(4) + (s3 \div 65536)
    IN  <<s1 % 65536, s2 % 65536, s3 % 65536, s4 % 65536>>

\* Hasher::write(bytes): FNV-1a, byte by byte
RECURSIVE fnv_write(_, _)
fnv_write(h, bytes) ==
    IF bytes = <<>> THEN h
    ELSE fnv_write(fnv_mul(fnv_xor(h, Head(bytes))), Tail(bytes))

\* Hasher::finish()
fnv_finish(h) == h

\* The route keys of the messages: "alpha", "beta", and a message without one
KeyAlpha == <<97, 108, 112, 104, 97>>
KeyBeta  == <<98, 101, 116, 97>>
NoKey    == <<>>
RouteKeys == {KeyAlpha, KeyBeta}

NoHash == <<>>

\* Two BrokerConn and one RouteConn
Conns == {"BrokerConn1", "BrokerConn2", "RouteConn"}

\* key.hash(&mut hasher): the hasher is put back to its initial state, the key
\* is written and the hash taken; the hasher keeps what was written.
RouteKey_hash(key, hasher) ==
    LET h == fnv_write(FnvDefault, key)
    IN  [hasher |-> h, value |-> fnv_finish(h)]

\* route that writes the key into the connection's hasher itself
route_hash_inline(hasher, key) ==
    IF key = NoKey
    THEN [hasher |-> hasher, route_hash |-> NoHash]
    ELSE LET h == fnv_write(hasher, key)
         IN  [hasher |-> h, route_hash |-> fnv_finish(h)]

\* msg.route_key().map(|key| key.hash(&mut self.hasher))
route_hash(hasher, key) ==
    IF key = NoKey
    THEN [hasher |-> hasher, route_hash |-> NoHash]
    ELSE LET h == RouteKey_hash(key, hasher)
         IN  [hasher |-> h.hasher, route_hash |-> h.value]

\* The frames route() sends: protocol::Message::new(msg).routing(route_hash)
\* serialized, behind "RQ" on a BrokerConn
route_frames(conn, key, rh) ==
    IF conn = "RouteConn"
    THEN << Frame([key |-> key, route_hash |-> rh], FALSE) >>
    ELSE << Frame(TagRQ, TRUE), Frame([key |-> key, route_hash |-> rh], FALSE) >>

RouteInit ==
    /\ hashers = [c \in Conns |-> FnvDefault]
    /\ routed = [c \in Conns |-> 0]
    /\ hashes = [k \in RouteKeys |-> {}]
    /\ rlast = [conn |-> "none", key |-> NoKey, route_hash |-> NoHash,
                frames |-> <<>>, res |-> "none"]

\* BrokerConn::route / RouteConn::route for a message with route key `key`
\* (NoKey: none).  res is "sent" or "send_fail" (try! on the send).
Route(conn, key, res) ==
    LET r == route_hash(hashers[conn], key) IN
    /\ routed[conn] < MaxRoutes
    /\ routed' = [routed EXCEPT ![conn] = @ + 1]
    /\ hashers' = [hashers EXCEPT ![conn] = r.hasher]
    /\ hashes' = IF key = NoKey THEN hashes
                 ELSE [hashes EXCEPT ![key] = @ \cup {r.route_hash}]
    /\ rlast' = [conn |-> conn, key |-> key, route_hash |-> r.route_hash,
                 frames |-> IF res = "sent"
                            THEN route_frames(conn, key, r.route_hash)
                            ELSE <<>>,
                 res |-> res]
    /\ UNCHANGED hrest

NextRoute ==
    \E conn \in Conns, key \in RouteKeys \cup {NoKey}, res \in {"sent", "send_fail"} :
        Route(conn, key, res)

Init == WorkerInit /\ SupervisorInit /\ RegInit /\ ServiceInit /\ BrokerInit /\ RouteInit

SpecWorker == Init /\ [][NextWorker]_vars

SpecSupervisor == Init /\ [][NextSupervisor]_vars

SpecServerReg == Init /\ [][NextServerReg]_vars

NextHeartbeat ==
    \/ NextServerReg
    \/ Receive

SpecHeartbeat == Init /\ [][NextHeartbeat]_vars

SpecService == Init /\ [][NextService]_vars

SpecBroker == Init /\ [][NextBroker]_vars

SpecRoute == Init /\ [][NextRoute]_vars

\* ------------------------------------------------------------------ claims

\* The worker thread has ended.
WorkerGone == pc = "exited" \/ sock # "connected" \/ rz.dropped

SupervisorPanicked == sup \in {"start_panicked", "run_panicked"}

\* The step is a spawn_worker call whose rx.recv() returned Ok / Err.
SpawnedReady  == spawned' = spawned + 1 /\ (spawned + 1) \in live'
SpawnedFailed == spawned' = spawned + 1 /\ (spawned + 1) \notin live'

\* C1: Supervisor respawn.  When the pass of Supervisor::run over slot i finds
\* its receiver disconnected and the worker spawned for it signals ready, slot i
\* holds that new worker's receiver after the pass.
C1_RespawnInSlot ==
    [][ (sup = "poll" /\ slot < Len(workers) /\ workers[slot + 1] \notin live
            /\ SpawnedReady)
        => (slot < Len(workers') /\ workers'[slot + 1] = spawned + 1) ]_vars

\* C2: Slot persistence.  Once start(worker_count) has returned, every step of
\* the supervisor leaves the pool with exactly worker_count slots and changes
\* no slot other than the one it is polling.
C2_SlotsPersist ==
    [][ (sup \in {"poll", "sleep"})
        => /\ Len(workers) = worker_count
           /\ Len(workers') = worker_count
           /\ \A j \in 1..worker_count :
                  j # slot + 1 => workers'[j] = workers[j] ]_vars

\* C3: every envelope handed to dispatch holds at most MAX_HOPS hops, and once
\* an inbound message has delivered more than MAX_HOPS hop frames the worker
\* is not dispatching it and has written no frame for it.
C3_HopsBounded ==
    /\ pc = "dispatch" => Len(envelope.hops) <= MAX_HOPS
    /\ wire.n > MAX_HOPS => (pc # "dispatch" /\ out = <<>>)

\* C3 witness: dispatch is running on an envelope with exactly MAX_HOPS hops.
C3_Witness == pc = "dispatch" /\ Len(envelope.hops) = MAX_HOPS /\ Len(rxhops) = MAX_HOPS

\* Whether reply call c put its payload frame on the socket.
WasSent(c) == c.sent

\* C4: once a reply payload has been written for an envelope, the frames
\* written for it are the hops in the order they were received, one empty
\* frame, the tag "RP", and then payload frames only.
C4_ReplyKeepsHops ==
    (\E i \in 1..Len(calls) : calls[i].sent)
    => /\ Len(out) >= Len(rxhops) + 3
       /\ \A i \in 1..Len(rxhops) : out[i].data = rxhops[i]
       /\ out[Len(rxhops) + 1].data = Delim
       /\ out[Len(rxhops) + 2].data = TagRP
       /\ \A i \in (Len(rxhops) + 3)..Len(out) : out[i].data = Payload

\* C4 witness: the reply to an envelope received with hops H1, H2, H1 is
\* complete: six frames, the last one the payload without "more".
C4_Witness ==
    /\ pc = "dispatch"
    /\ rxhops = <<"H1", "H2", "H1">>
    /\ Len(out) = 6
    /\ out[6] = Frame(Payload, FALSE)

\* C5: between two resets the hop prefix (hops, empty frame, "RP", all with
\* "more") is written once, before any payload frame; after it come exactly
\* the payload frames of the calls that sent one, with "more" for reply() and
\* without for reply_complete().  Before the prefix is complete no payload
\* frame has been written.
C5_HeaderOnce ==
    LET hdr == [i \in 1..Len(envelope.hops) |-> Frame(envelope.hops[i], TRUE)]
               \o <<Frame(Delim, TRUE), Frame(TagRP, TRUE)>>
        sent == SelectSeq(calls, WasSent)
        payloads == [i \in 1..Len(sent) |-> Frame(Payload, sent[i].kind = "reply")]
    IN  IF envelope.started
        THEN out = hdr \o payloads
        ELSE /\ sent = <<>>
             /\ Len(out) < Len(hdr)
             /\ out = SubSeq(hdr, 1, Len(out))

\* C5 witness: one dispatch called reply() and then reply_complete() on an
\* envelope with hops, and both payload frames went out.
C5_Witness ==
    /\ pc = "dispatch"
    /\ envelope.started
    /\ Len(envelope.hops) = 2
    /\ calls = << [kind |-> "reply", sent |-> TRUE],
                  [kind |-> "reply_complete", sent |-> TRUE] >>

\* C6: the worker skips the tag frame behind the delimiter: the tag is never
\* the frame given to parse_from_bytes, never a hop, and whenever the worker is
\* in the 'hops loop it is reading the hop frames of the message the peer is
\* sending and holds exactly the hops of that message.
C6_TagSkipped ==
    /\ raw # TagRQ
    /\ \A i \in 1..Len(envelope.hops) : envelope.hops[i] # TagRQ
    /\ pc = "hops" => (wire.st = "hops" /\ Len(envelope.hops) = wire.n)

\* C7: MAX_HOPS overflow is consumed locally.  When the ninth hop frame of a
\* message arrives, the worker drops the envelope and goes on: it has not
\* exited, its socket is open, its readiness channel connected, the envelope
\* is reset and nothing was written.
C7_OverflowConsumed ==
    [][ (pc = "hops" /\ wire.st = "hops" /\ wire.n = MAX_HOPS
            /\ wire'.n = MAX_HOPS + 1)
        => (~WorkerGone' /\ envelope' = Envelope_default /\ out' = <<>>) ]_vars

\* C8: a dispatch that returns an error does not end the worker: after it the
\* envelope is reset and the worker is back in its receive loop with its
\* socket open and its readiness channel connected.
C8_DispatchErrorSurvived ==
    [][ (pc = "dispatch" /\ ev' = "dispatch_error")
        => (~WorkerGone' /\ pc' = "hops" /\ envelope' = Envelope_default) ]_vars

\* C9: when the frame read as the body does not decode, dispatch is not
\* invoked and nothing is written; the worker stays up with its socket open,
\* the envelope is reset (no hops, not started, empty msg) and the worker is
\* back at the head of its receive loop.
C9_ParseErrorDropped ==
    [][ (pc = "body" /\ wire' # wire /\ ~parse_from_bytes(raw').ok)
        => /\ pc' = "hops"
           /\ envelope' = Envelope_default
           /\ out' = out
           /\ calls' = <<>>
           /\ ~WorkerGone' ]_vars

\* C9 witness: the junk body of an untagged message has just been dropped
\* and the worker is at the head of its loop, before the next message.
C9_Witness ==
    /\ ev = "parse_error"
    /\ raw = JunkBody
    /\ wire = [st |-> "hops", n |-> 0]
    /\ pc = "hops"

\* C10: a worker that ends before signalling readiness is restarted: the
\* spawn_worker call that saw it fail leaves the supervisor running, and under
\* supervision leaves the pool with the slots it had.
C10_FailedSpawnKept ==
    [][ SpawnedFailed
        => (~SupervisorPanicked' /\ (sup = "poll" => workers' = workers)) ]_vars

\* C11: Supervisor::start returns, and the supervision thread polls, only
\* after each of the worker_count workers of the pool has signalled readiness:
\* while a spawn of init is outstanding or has failed the supervisor is not
\* polling, and once it is, the first worker_count channels (the workers of
\* init) all carried the readiness message.
C11_ReadyBeforeSupervision ==
    sup \in {"poll", "sleep", "run_panicked"}
    => /\ spawned >= worker_count
       /\ \A id \in 1..worker_count : id \in signalled

\* C11 witness: start(3) has just returned; the three workers signalled and
\* the supervisor is about to make its first poll.
C11_Witness ==
    /\ sup = "poll"
    /\ slot = 0
    /\ worker_count = 3
    /\ spawned = 3
    /\ signalled = {1, 2, 3}
    /\ workers = <<1, 2, 3>>

\* C12 as stated: ping_at < expires in every state of a ServerReg, after any
\* ping() calls at any clock values.
C12_PingBeforeExpires ==
    reg_made => reg.ping_at < reg.expires

\* C12 amended: ping_at < expires holds after construction and after any ping()
\* calls for as long as the clock is more than PING_INTERVAL short of expires.
C12_PingBeforeExpiresWhileFresh ==
    (reg_made /\ clock < reg.expires - PING_INTERVAL) => reg.ping_at < reg.expires

\* C12 witness: a Ping has been sent and the clock is still more than
\* PING_INTERVAL short of expires.
C12_Witness ==
    /\ reg_made
    /\ hb_sent = 1
    /\ clock > created
    /\ clock < reg.expires - PING_INTERVAL
    /\ reg.ping_at < reg.expires

\* C13 as stated: with ping() called at every tick, ping_at never decreases and
\* every change of it is an increase by a multiple of PING_INTERVAL.
C13_PingOnGrid ==
    [][ (reg_made /\ driven /\ reg'.ping_at # reg.ping_at)
        => /\ reg'.ping_at > reg.ping_at
           /\ (reg'.ping_at - reg.ping_at) % PING_INTERVAL = 0 ]_vars

\* C13 amended: ping_at never decreases and every change of it is an increase
\* of at least PING_INTERVAL (ping() sets it to the clock value read after the
\* send, plus PING_INTERVAL).
C13_PingAdvances ==
    [][ (reg_made /\ reg'.ping_at # reg.ping_at)
        => reg'.ping_at >= reg.ping_at + PING_INTERVAL ]_vars

\* C13 witness: ping() has been called at every tick and the Ping just sent
\* took a tick to send, so ping_at left the grid of the creation time.
C13_Witness ==
    /\ reg_made
    /\ driven
    /\ rev.op = "ping"
    /\ rev.res = "sent"
    /\ rev.after > rev.now
    /\ reg.ping_at = rev.after + PING_INTERVAL
    /\ (reg.ping_at - created) % PING_INTERVAL # 0

C15_PingKeepsExpires ==
    [][ /\ reg_made => /\ reg'.expires = reg.expires
                       /\ reg'.alive = reg.alive
                       /\ reg'.endpoint = reg.endpoint
        /\ reg_made' => /\ reg'.expires = created' + SERVER_TTL
                        /\ (clock' >= created' + SERVER_TTL => clock' >= reg'.expires)
      ]_vars

\* C15 witness: two Pings went out and the clock has passed creation time +
\* SERVER_TTL: the entry is expired.
C15_Witness ==
    /\ reg_made
    /\ hb_sent >= 2
    /\ clock > created + SERVER_TTL
    /\ clock >= reg.expires

\* What C20 says of one ping() call, with ping_at set to t + PING_INTERVAL when
\* a Ping goes out: a due call that sends puts exactly one Ping on the socket; a
\* call that is not due sends nothing and changes nothing; a due call whose
\* serialisation or send fails sends nothing and leaves ping_at alone.
PingCallEffect(t) ==
    rev'.op = "ping"
    => /\ (rev'.now >= reg.ping_at /\ rev'.res = "sent")
            => (hb_sent' = hb_sent + 1 /\ reg'.ping_at = t + PING_INTERVAL)
       /\ rev'.now < reg.ping_at
            => (hb_sent' = hb_sent /\ reg' = reg)
       /\ (rev'.now >= reg.ping_at /\ rev'.res # "sent")
            => (hb_sent' = hb_sent /\ reg' = reg)

\* C20 as stated: a due ping() sends one Ping and sets ping_at to now + 2000,
\* now being the clock value the call compared with ping_at.
C20_PingAtNow ==
    [][ PingCallEffect(rev'.now) ]_vars

\* C20 amended: a due ping() sends one Ping and sets ping_at to the clock value
\* read after the send + 2000; a call that is not due, or whose serialisation
\* or send fails, sends nothing and leaves ping_at unchanged.
C20_PingAtSendTime ==
    [][ PingCallEffect(rev'.after) ]_vars

\* C20 witness: a send failed, the next call sent the Ping, and ping_at is the
\* clock value after that send + PING_INTERVAL.
C20_Witness ==
    /\ rev.op = "ping"
    /\ rev.res = "sent"
    /\ rev.now > created + PING_INTERVAL
    /\ hb_sent = 1
    /\ reg.ping_at = rev.after + PING_INTERVAL

\* C19: reset() returns the envelope to the freshly constructed one whatever
\* its state, and since the worker loop resets after every request each
\* dispatch starts with a header still to be sent and with exactly the hops of
\* its own request: as many as the request carried, each a hop frame of it.
C19_ResetBetweenRequests ==
    /\ reset(envelope) = Envelope_default
    /\ (pc = "dispatch" /\ calls = <<>>) => ~envelope.started
    /\ pc = "dispatch" => \A i \in 1..Len(envelope.hops) : envelope.hops[i] \in HopIds

\* C16: the request socket is connected to a router's main port only after
\* the handshake (probe and marker received, "R" and the Registration sent,
\* acknowledgement received) has been completed as many times as there are
\* configured routers; when registering or a handshake step fails no request
\* connection is made; the request connections follow the configuration order.
C16_ConnectAfterHandshakes ==
    /\ sock_conns # <<>>
         => /\ svc_ready = Len(route_addrs)
            /\ hb_log = [i \in 1..(Len(HandshakeSteps) * Len(route_addrs))
                           |-> HandshakeSteps[((i - 1) % Len(HandshakeSteps)) + 1]]
            /\ Len(hb_conns) = Len(route_addrs)
    /\ svc_failed \in {"register", "messages", "handshake"} => sock_conns = <<>>
    /\ Len(sock_conns) <= Len(route_addrs)
    /\ \A i \in 1..Len(sock_conns) : sock_conns[i] = to_addr_string(route_addrs[i])

\* C16 witness: connect returned Ok for two routers: both handshakes done and
\* the request socket connected to both main ports in configuration order.
C16_Witness ==
    /\ svc_pc = "ok"
    /\ route_addrs = <<"10.0.0.2", "10.0.0.1">>
    /\ svc_ready = 2
    /\ sock_conns = <<to_addr_string("10.0.0.2"), to_addr_string("10.0.0.1")>>

\* C17: run returns the handle only after the broker thread bound the frontend
\* and connected the backend to every configured router; when the thread fails
\* before signalling readiness run never returns a handle, and its recv ends
\* in the panic.
C17_HandleAfterStartup ==
    [][ /\ caller' = "returned" => (fe_bound' /\ be_conns' = brk_addrs')
        /\ (brk' = "dead" /\ ~tx'.sent) => caller' # "returned"
        /\ (caller = "waiting" /\ caller' # caller /\ brk = "dead" /\ ~tx.sent)
              => caller' = "panicked" ]_vars

\* C17 witness: run has returned the handle with the broker thread in the
\* proxy, bound and connected to both routers.
C17_Witness ==
    /\ caller = "returned"
    /\ brk = "proxy"
    /\ fe_bound
    /\ Len(brk_addrs) = 2
    /\ be_conns = brk_addrs

C21_OverflowRecycles ==
    [][ (pc = "hops" /\ Len(envelope.hops) >= MAX_HOPS /\ Len(rxhops') = Len(rxhops) + 1)
        => /\ envelope' = Envelope_default
           /\ out' = out
           /\ pc' = "exited"
           /\ sock' = "closed"
           /\ rz'.dropped
           /\ try_recv(rz') = "Disconnected" ]_vars

\* C21 witness: the ninth hop frame of a message has come in and the worker
\* has ended with its socket closed and its sender dropped.
C21_Witness ==
    /\ ev = "max_hops"
    /\ Len(rxhops) = MAX_HOPS + 1
    /\ envelope = Envelope_default
    /\ pc = "exited"
    /\ sock = "closed"
    /\ rz.sent
    /\ try_recv(rz) = "Disconnected"

\* How often step occurs among the calls made on the heartbeat socket
HeartbeatCalls(step) == Cardinality({i \in 1..Len(hb_log) : hb_log[i] = step})

\* C22: on the heartbeat socket the service goes through whole handshakes one
\* after the other (probe frame, marker frame, "R", the Registration,
\* acknowledgement), so each "R"+Registration follows a probe and a marker and
\* the next handshake starts only after the acknowledgement; it never sends
\* more Registrations than there are configured routers, and the loop is left
\* after exactly as many acknowledgements, and as many "R"+Registration
\* messages, as there are configured routers.
C22_OneRegistrationPerRouter ==
    /\ hb_log = [i \in 1..Len(hb_log)
                   |-> HandshakeSteps[((i - 1) % Len(HandshakeSteps)) + 1]]
    /\ Len(hb_log) = Len(HandshakeSteps) * svc_ready + hs_step
    /\ HeartbeatCalls("send_reg") <= Len(route_addrs)
    /\ svc_pc = "handshake" => svc_ready < Len(route_addrs)
    /\ (svc_pc \in {"connect", "ok"} \/ svc_failed = "connect")
         => /\ HeartbeatCalls("recv_ack") = Len(route_addrs)
            /\ HeartbeatCalls("send_R") = Len(route_addrs)
            /\ HeartbeatCalls("send_reg") = Len(route_addrs)
            /\ hs_step = 0

\* C22 witness: with two routers configured the loop has just been left after
\* two acknowledgements, before any request connection.
C22_Witness ==
    /\ svc_pc = "connect"
    /\ Len(route_addrs) = 2
    /\ sock_conns = <<>>
    /\ HeartbeatCalls("recv_ack") = 2
    /\ HeartbeatCalls("send_reg") = 2
    /\ hb_log[Len(hb_log)] = "recv_ack"

\* C23: no worker leak.  The number of live worker threads never exceeds
\* worker_count, and the supervisor spawns a worker in run only when fewer
\* than worker_count workers are alive (one respawn for one death).
C23_NoWorkerLeak ==
    [][ /\ Cardinality(live') <= worker_count
        /\ (sup = "poll" /\ spawned' = spawned + 1) => Cardinality(live) < worker_count
      ]_vars

====
